---- MODULE Spec2Model ----
(***************************************************************************)
(* Model of server.js: an Express front end that proxies one upstream API  *)
(* and renders the answers.  One request is followed from its arrival,     *)
(* through the synchronous prefix of its handler (parameter extraction,    *)
(* early return or issue of the upstream calls), the settling of each      *)
(* axios promise inside apiCall, and the continuation of the handler after *)
(* its await, to the response(s) written on res.                           *)
(*                                                                         *)
(* JavaScript strings that the code takes apart (path parameters, query    *)
(* values) are sequences of one-character strings; Join turns them into    *)
(* the string that is interpolated into the upstream URL.                  *)
(***************************************************************************)
EXTENDS Integers, Sequences, FiniteSets, TLC

VARIABLES
    phase,      \* "idle" | "awaiting" | "done": position of the handler
    req,        \* the request being served: [route, params, query]
    calls,      \* the apiCall promises of this request, in issue order
    responses,  \* what has been written on res for this request
    reads,      \* the envelope fields the handler has read, in order
    threw       \* TRUE when the handler's try block raised an exception

vars == <<phase, req, calls, responses, reads, threw>>

-----------------------------------------------------------------------------
(* Bounds *)

\* longest path identifier (:id, :animeId) that is enumerated
MaxIdLen == 2

-----------------------------------------------------------------------------
(* Strings *)

RECURSIVE Join(_)
Join(s) == IF s = <<>> THEN "" ELSE s[1] \o Join(Tail(s))

\* s.split('?')[0]: the part of s before its first '?'
RECURSIVE SplitQ(_)
SplitQ(s) ==
    IF s = <<>> THEN <<>>
    ELSE IF s[1] = "?" THEN <<>>
    ELSE <<s[1]>> \o SplitQ(Tail(s))

\* encodeURIComponent over the characters the model uses
EncodeChar(c) ==
    IF c = " " THEN <<"%", "2", "0">>
    ELSE IF c = "?" THEN <<"%", "3", "F">>
    ELSE IF c = "&" THEN <<"%", "2", "6">>
    ELSE <<c>>

RECURSIVE encodeURIComponent(_)
encodeURIComponent(s) ==
    IF s = <<>> THEN <<>>
    ELSE EncodeChar(s[1]) \o encodeURIComponent(Tail(s))

-----------------------------------------------------------------------------
(* Request parameters *)

\* a value of req.query / req.params: undefined, or a string
Absent == [given |-> FALSE, val |-> <<>>]
Given(s) == [given |-> TRUE, val |-> s]

\* !p : undefined and '' are the falsy values a parameter can take
Falsy(p) == ~p.given \/ p.val = <<>>

\* p || d
OrDefault(p, d) == IF Falsy(p) THEN d ELSE p.val

IdChars == {"7", "?"}

RECURSIVE SeqsUpTo(_, _)
SeqsUpTo(S, n) ==
    IF n = 0 THEN {<<>>}
    ELSE LET shorter == SeqsUpTo(S, n - 1)
         IN  shorter \cup {<<c>> \o t : c \in S, t \in {u \in shorter : Len(u) = n - 1}}

\* a path segment is never empty
PathIds == SeqsUpTo(IdChars, MaxIdLen) \ {<<>>}

NoParams == [id |-> <<>>, animeId |-> <<>>, query |-> <<>>, category |-> Absent]
NoQuery == [ep |-> Absent, server |-> Absent, type |-> Absent,
            keyword |-> Absent, page |-> Absent, id |-> Absent]

Request(route, params, query) == [route |-> route, params |-> params, query |-> query]

EpValues == {Absent, Given(<<>>), Given(<<"3">>)}
ServerValues == {Absent, Given(<<"H", "D", "-", "2">>)}
TypeValues == {Absent, Given(<<"d", "u", "b">>)}
KeywordValues == {Absent, Given(<<>>), Given(<<"a", " ", "b">>)}
PageValues == {Absent, Given(<<"2">>)}
IdValues == {Absent, Given(<<>>), Given(<<"7", ":", ":", "e", "p", "=", "1">>)}
QueryNames == {<<"t", "v">>, <<"t", "o", "p", "-", "a">>}
CategoryValues == {Absent, Given(<<"a">>)}

Requests ==
    {Request("home", NoParams, NoQuery)}
    \cup {Request("anime", [NoParams EXCEPT !.id = i], NoQuery) : i \in PathIds}
    \cup {Request("episodes", [NoParams EXCEPT !.id = i], NoQuery) : i \in PathIds}
    \cup {Request("watch", [NoParams EXCEPT !.animeId = i],
                  [NoQuery EXCEPT !.ep = e, !.server = s, !.type = t]) :
             i \in PathIds, e \in EpValues, s \in ServerValues, t \in TypeValues}
    \cup {Request("search", NoParams, [NoQuery EXCEPT !.keyword = k, !.page = p]) :
             k \in KeywordValues, p \in PageValues}
    \cup {Request("browse", [NoParams EXCEPT !.query = q, !.category = c],
                  [NoQuery EXCEPT !.page = p]) :
             q \in QueryNames, c \in CategoryValues, p \in PageValues}
    \cup {Request("suggestions", NoParams, [NoQuery EXCEPT !.keyword = k]) :
             k \in KeywordValues}
    \cup {Request("servers", NoParams, [NoQuery EXCEPT !.id = i]) : i \in IdValues}
    \cup {Request("stream", NoParams,
                  [NoQuery EXCEPT !.id = i, !.server = s, !.type = t]) :
             i \in IdValues, s \in ServerValues, t \in TypeValues}
    \cup {Request("unmatched", NoParams, NoQuery)}

NoRequest == Request("none", NoParams, NoQuery)

HtmlRoutes == {"home", "anime", "episodes", "watch", "search", "browse"}
JsonRoutes == {"suggestions", "servers", "stream"}

-----------------------------------------------------------------------------
(* JavaScript values that travel in an upstream body *)

\* one shape for every value: kind says what it is, the other fields are
\* the properties of an object ("undefined" when the property is missing)
Value(kind, success, data, error, message) ==
    [kind |-> kind, success |-> success, data |-> data,
     error |-> error, message |-> message]

NoValue == Value("none", "undefined", "undefined", "undefined", "undefined")
JsNull == Value("null", "undefined", "undefined", "undefined", "undefined")
JsString == Value("string", "undefined", "undefined", "undefined", "undefined")
Object(success, data, error) == Value("object", success, data, error, "undefined")
LocalError(message) == Value("object", "false", "undefined", "undefined", message)

\* bodies a 2xx answer of the upstream can carry
Bodies ==
    {JsNull, JsString,
     Object("true", "obj", "undefined"),
     Object("true", "undefined", "undefined"),
     Object("true", "null", "undefined"),
     Object("false", "undefined", "upstream")}

Outcome(type, body) == [type |-> type, body |-> body]
NoOutcome == Outcome("none", NoValue)

\* what axios.get can do: reject (network error, non-2xx status) or resolve
Outcomes ==
    {Outcome("transport", NoValue), Outcome("status", NoValue)}
    \cup {Outcome("ok", b) : b \in Bodies}

\* error.message of a rejected axios.get
ErrorMessage(o) == IF o.type = "transport" THEN "Network Error" ELSE "status code"

\* v.success / v.data for a non-null v: a string has neither property
Success(v) == IF v.kind = "object" THEN v.success ELSE "undefined"
Data(v) == IF v.kind = "object" THEN v.data ELSE "undefined"
Truthy(x) == x = "true"

\* property access on null raises a TypeError
MemberThrows(v) == v.kind = "null"
\* d.title raises a TypeError when d is undefined or null
TitleThrows(d) == d \in {"undefined", "null"}

-----------------------------------------------------------------------------
(* apiCall *)

Promise(st, val) == [st |-> st, val |-> val]

\* apiCall without its catch: the rejection of axios.get propagates
apiCall_Rethrow(o) ==
    IF o.type = "ok"
    THEN Promise("fulfilled", o.body)
    ELSE Promise("rejected", NoValue)

apiCall(o) ==
    IF o.type = "ok"
    THEN Promise("fulfilled", o.body)
    ELSE Promise("fulfilled", Object("false", "undefined", ErrorMessage(o)))

Call(url, st, outcome, val) == [url |-> url, st |-> st, outcome |-> outcome, val |-> val]
PendingCall(url) == Call(url, "pending", NoOutcome, NoValue)

\* Promise.all over promises: settled once all are fulfilled, or as soon as
\* one is rejected
JoinReady(cs) ==
    \/ \A i \in DOMAIN cs : cs[i].st = "fulfilled"
    \/ \E i \in DOMAIN cs : cs[i].st = "rejected"

JoinRejected(cs) == \E i \in DOMAIN cs : cs[i].st = "rejected"

-----------------------------------------------------------------------------
(* Responses *)

NoCtx == [data |-> "unset", anime |-> "unset", episodes |-> "unset",
          servers |-> "unset", streamData |-> "unset", results |-> "unset"]

Response(kind, status, view, message, ctx, body) ==
    [kind |-> kind, status |-> status, view |-> view, message |-> message,
     ctx |-> ctx, body |-> body]

\* res.render(view, ctx): the status stays at the default
Render(view, ctx) == Response("render", 200, view, "", ctx, NoValue)
ErrorPage(message) == Response("render", 200, "error", message, NoCtx, NoValue)
\* res.json(body)
Json(body) == Response("json", 200, "", "", NoCtx, body)

NotFoundResponse == Response("render", 404, "error", "Page not found", NoCtx, NoValue)
ErrorHandlerResponse ==
    Response("render", 500, "error", "Something went wrong!", NoCtx, NoValue)

NoResponse == Response("none", 0, "", "", NoCtx, NoValue)

-----------------------------------------------------------------------------
(* The synchronous prefix of each handler: what it does before its await *)

Respond(r) == [responses |-> <<r>>, issue |-> <<>>]
Issue(urls) == [responses |-> <<>>, issue |-> urls]

\* `${animeId}::ep=${episode}`
CompositeKey(animeId, episode) == Join(animeId) \o "::ep=" \o Join(episode)

HomeSync == Issue(<<"/api/v1/home">>)

AnimeSync(rq) ==
    LET animeId == rq.params.id
    IN  Issue(<<"/api/v1/anime/" \o Join(animeId)>>)

EpisodesSync(rq) ==
    LET animeId == rq.params.id
    IN  Issue(<<"/api/v1/anime/" \o Join(animeId),
                "/api/v1/episodes/" \o Join(animeId)>>)

WatchSync(rq) ==
    LET animeId == rq.params.animeId
        episodeParam == OrDefault(rq.query.ep, <<"1">>)
        serverParam == OrDefault(rq.query.server, <<"H", "D", "-", "1">>)
        typeParam == OrDefault(rq.query.type, <<"s", "u", "b">>)
        serverId == CompositeKey(animeId, episodeParam)
    IN  Issue(<<"/api/v1/anime/" \o Join(SplitQ(animeId)),
                "/api/v1/servers?id=" \o serverId,
                "/api/v1/stream?server=" \o Join(serverParam)
                    \o "&type=" \o Join(typeParam) \o "&id=" \o serverId>>)

\* the search handler without its empty-keyword guard
SearchSync_NoGuard(rq) ==
    LET keyword == OrDefault(rq.query.keyword, <<>>)
        page == OrDefault(rq.query.page, <<"1">>)
    IN  Issue(<<"/api/v1/search?keyword=" \o Join(encodeURIComponent(keyword))
                    \o "&page=" \o Join(page)>>)

SearchSync(rq) ==
    LET keyword == OrDefault(rq.query.keyword, <<>>)
        page == OrDefault(rq.query.page, <<"1">>)
    IN  IF keyword = <<>>
        THEN Respond(Render("search", [NoCtx EXCEPT !.results = "null"]))
        ELSE Issue(<<"/api/v1/search?keyword=" \o Join(encodeURIComponent(keyword))
                        \o "&page=" \o Join(page)>>)

BrowseSync(rq) ==
    LET query == rq.params.query
        category == OrDefault(rq.params.category, <<>>)
        page == OrDefault(rq.query.page, <<"1">>)
        endpoint0 == "/api/v1/animes/" \o Join(query)
        endpoint1 == IF category # <<>>
                     THEN endpoint0 \o "/" \o Join(category)
                     ELSE endpoint0
    IN  Issue(<<endpoint1 \o "?page=" \o Join(page)>>)

SuggestionsSync(rq) ==
    LET keyword == rq.query.keyword
    IN  IF Falsy(keyword)
        THEN Respond(Json(LocalError("Keyword required")))
        ELSE Issue(<<"/api/v1/search/suggestion?keyword="
                        \o Join(encodeURIComponent(keyword.val))>>)

\* the servers handler with `return` missing from its guard
ServersSync_NoReturn(rq) ==
    LET id == rq.query.id
    IN  [responses |-> IF Falsy(id) THEN <<Json(LocalError("ID required"))>> ELSE <<>>,
         issue |-> <<"/api/v1/servers?id=" \o Join(id.val)>>]

ServersSync(rq) ==
    LET id == rq.query.id
    IN  IF Falsy(id)
        THEN Respond(Json(LocalError("ID required")))
        ELSE Issue(<<"/api/v1/servers?id=" \o Join(id.val)>>)

\* the stream handler with `type` missing from its guard
StreamSync_NoType(rq) ==
    LET id == rq.query.id
        server == rq.query.server
        type == rq.query.type
    IN  IF Falsy(id) \/ Falsy(server)
        THEN Respond(Json(LocalError("Missing required parameters")))
        ELSE Issue(<<"/api/v1/stream?server=" \o Join(server.val)
                        \o "&type=" \o Join(type.val) \o "&id=" \o Join(id.val)>>)

StreamSync(rq) ==
    LET id == rq.query.id
        server == rq.query.server
        type == rq.query.type
    IN  IF Falsy(id) \/ Falsy(server) \/ Falsy(type)
        THEN Respond(Json(LocalError("Missing required parameters")))
        ELSE Issue(<<"/api/v1/stream?server=" \o Join(server.val)
                        \o "&type=" \o Join(type.val) \o "&id=" \o Join(id.val)>>)

\* the 404 handler: reached when no route matches
NotFound == Respond(NotFoundResponse)

Sync(rq) ==
    CASE rq.route = "home" -> HomeSync
      [] rq.route = "anime" -> AnimeSync(rq)
      [] rq.route = "episodes" -> EpisodesSync(rq)
      [] rq.route = "watch" -> WatchSync(rq)
      [] rq.route = "search" -> SearchSync(rq)
      [] rq.route = "browse" -> BrowseSync(rq)
      [] rq.route = "suggestions" -> SuggestionsSync(rq)
      [] rq.route = "servers" -> ServersSync(rq)
      [] rq.route = "stream" -> StreamSync(rq)
      [] OTHER -> NotFound

-----------------------------------------------------------------------------
(* The continuation of each handler: what it does once its await returns *)

\* a completed read of property `field` of the envelope of call i
Read(i, field, seen) == [call |-> i, field |-> field, seen |-> seen]
RS(i, v) == Read(i, "success", Success(v))
RD(i, v) == Read(i, "data", Data(v))

\* outcome of a try block: the response it chose, or the exception it raised
Done(resp, log) == [threw |-> FALSE, resp |-> resp, reads |-> log]
Thrown(log) == [threw |-> TRUE, resp |-> NoResponse, reads |-> log]

\* `v.data` taken without looking at v.success
DataOrNull_Unchecked(i, v) == [val |-> Data(v), reads |-> <<RD(i, v)>>]

\* `v.success ? v.data : null`, for a non-null v
DataOrNull(i, v) ==
    IF Truthy(Success(v))
    THEN [val |-> Data(v), reads |-> <<RS(i, v), RD(i, v)>>]
    ELSE [val |-> "null", reads |-> <<RS(i, v)>>]

HomeTry(homeData) ==
    IF MemberThrows(homeData) THEN Thrown(<<>>)
    ELSE IF Truthy(Success(homeData))
    THEN Done(Render("home", [NoCtx EXCEPT !.data = Data(homeData)]),
              <<RS(1, homeData), RD(1, homeData)>>)
    ELSE Done(ErrorPage("Failed to load home data"), <<RS(1, homeData)>>)

AnimeTry(animeData) ==
    IF MemberThrows(animeData) THEN Thrown(<<>>)
    ELSE IF Truthy(Success(animeData))
    THEN LET log == <<RS(1, animeData), RD(1, animeData), RD(1, animeData)>>
         IN  IF TitleThrows(Data(animeData)) THEN Thrown(log)
             ELSE Done(Render("anime-details",
                              [NoCtx EXCEPT !.anime = Data(animeData)]), log)
    ELSE Done(ErrorPage("Anime not found"), <<RS(1, animeData)>>)

EpisodesTry(animeData, episodesData) ==
    IF MemberThrows(animeData) THEN Thrown(<<>>)
    ELSE IF ~Truthy(Success(animeData))
    THEN Done(ErrorPage("Failed to load episodes"), <<RS(1, animeData)>>)
    ELSE IF MemberThrows(episodesData) THEN Thrown(<<RS(1, animeData)>>)
    ELSE IF ~Truthy(Success(episodesData))
    THEN Done(ErrorPage("Failed to load episodes"),
              <<RS(1, animeData), RS(2, episodesData)>>)
    ELSE LET log == <<RS(1, animeData), RS(2, episodesData), RD(1, animeData),
                      RD(2, episodesData), RD(1, animeData)>>
         IN  IF TitleThrows(Data(animeData)) THEN Thrown(log)
             ELSE Done(Render("episodes",
                              [NoCtx EXCEPT !.anime = Data(animeData),
                                            !.episodes = Data(episodesData)]), log)

WatchTry(animeData, serversData, streamData) ==
    IF MemberThrows(animeData) THEN Thrown(<<>>)
    ELSE IF ~Truthy(Success(animeData))
    THEN Done(ErrorPage("Failed to load watch page"), <<RS(1, animeData)>>)
    ELSE LET log1 == <<RS(1, animeData), RD(1, animeData)>>
         IN  IF MemberThrows(serversData) THEN Thrown(log1)
             ELSE LET servers == DataOrNull(2, serversData)
                      log2 == log1 \o servers.reads
                  IN  IF MemberThrows(streamData) THEN Thrown(log2)
                      ELSE LET stream == DataOrNull(3, streamData)
                               log3 == log2 \o stream.reads \o <<RD(1, animeData)>>
                           IN  IF TitleThrows(Data(animeData)) THEN Thrown(log3)
                               ELSE Done(Render("watch",
                                           [NoCtx EXCEPT !.anime = Data(animeData),
                                                         !.servers = servers.val,
                                                         !.streamData = stream.val]),
                                         log3)

SearchTry(searchData) ==
    IF MemberThrows(searchData) THEN Thrown(<<>>)
    ELSE LET results == DataOrNull(1, searchData)
         IN  Done(Render("search", [NoCtx EXCEPT !.results = results.val]),
                  results.reads)

BrowseTry(browseData) ==
    IF MemberThrows(browseData) THEN Thrown(<<>>)
    ELSE IF Truthy(Success(browseData))
    THEN Done(Render("browse", [NoCtx EXCEPT !.data = Data(browseData)]),
              <<RS(1, browseData), RD(1, browseData)>>)
    ELSE Done(ErrorPage("Failed to load browse data"), <<RS(1, browseData)>>)

\* res.json(envelope): the three JSON routes pass the envelope through
JsonTry(envelope) == Done(Json(envelope), <<>>)

Try(rq, cs) ==
    CASE rq.route = "home" -> HomeTry(cs[1].val)
      [] rq.route = "anime" -> AnimeTry(cs[1].val)
      [] rq.route = "episodes" -> EpisodesTry(cs[1].val, cs[2].val)
      [] rq.route = "watch" -> WatchTry(cs[1].val, cs[2].val, cs[3].val)
      [] rq.route = "search" -> SearchTry(cs[1].val)
      [] rq.route = "browse" -> BrowseTry(cs[1].val)
      [] OTHER -> JsonTry(cs[1].val)

\* a handler whose catch block hands the exception to next(err)
CatchResponse_Forward(route) == ErrorHandlerResponse

\* the catch block of each handler
CatchResponse(route) ==
    CASE route = "home" -> ErrorPage("Server error occurred")
      [] route = "anime" -> ErrorPage("Failed to load anime details")
      [] route = "episodes" -> ErrorPage("Failed to load episodes")
      [] route = "watch" -> ErrorPage("Failed to load watch page")
      [] route = "search" -> Render("search", [NoCtx EXCEPT !.results = "null"])
      [] route = "browse" -> ErrorPage("Failed to load browse data")
      [] OTHER -> Json(Object("false", "undefined", "TypeError"))

\* try { ... } catch (error) { ... } around the continuation; an await on a
\* rejected promise raises inside the try block
Continue(rq, cs) ==
    LET t == IF JoinRejected(cs) THEN Thrown(<<>>) ELSE Try(rq, cs)
    IN  [responses |-> IF t.threw THEN <<CatchResponse(rq.route)>> ELSE <<t.resp>>,
         reads |-> t.reads,
         threw |-> t.threw]

-----------------------------------------------------------------------------
(* Actions *)

Init ==
    /\ phase = "idle"
    /\ req = NoRequest
    /\ calls = <<>>
    /\ responses = <<>>
    /\ reads = <<>>
    /\ threw = FALSE

\* a request arrives and its handler runs up to its first await (or to its
\* early return)
Receive(rq) ==
    /\ phase = "idle"
    /\ LET s == Sync(rq)
       IN  /\ req' = rq
           /\ responses' = s.responses
           /\ calls' = [i \in 1..Len(s.issue) |-> PendingCall(s.issue[i])]
           /\ phase' = IF s.issue = <<>> THEN "done" ELSE "awaiting"
    /\ reads' = <<>>
    /\ threw' = FALSE

\* the axios.get of call i settles with outcome o and apiCall returns
Settle(i, o) ==
    /\ i \in DOMAIN calls
    /\ calls[i].st = "pending"
    /\ LET p == apiCall(o)
       IN  calls' = [calls EXCEPT ![i] = Call(calls[i].url, p.st, o, p.val)]
    /\ UNCHANGED <<phase, req, responses, reads, threw>>

\* the await of the handler returns and the handler runs to its end
Resume ==
    /\ phase = "awaiting"
    /\ JoinReady(calls)
    /\ LET k == Continue(req, calls)
       IN  /\ responses' = responses \o k.responses
           /\ reads' = k.reads
           /\ threw' = k.threw
    /\ phase' = "done"
    /\ UNCHANGED <<req, calls>>

\* the handler has returned: the request-scoped values are dropped and the
\* listening server takes the next request
Finish ==
    /\ phase = "done"
    /\ phase' = "idle"
    /\ req' = NoRequest
    /\ calls' = <<>>
    /\ responses' = <<>>
    /\ reads' = <<>>
    /\ threw' = FALSE

Next ==
    \/ \E rq \in Requests : Receive(rq)
    \/ \E i \in 1..3, o \in Outcomes : Settle(i, o)
    \/ Resume
    \/ Finish

Spec == Init /\ [][Next]_vars

\* every issued call eventually settles, and a handler whose await can
\* return is resumed by the event loop
FairSpec ==
    /\ Spec
    /\ WF_vars(\E i \in 1..3, o \in Outcomes : Settle(i, o))
    /\ WF_vars(Resume)

TypeOK ==
    /\ phase \in {"idle", "awaiting", "done"}
    /\ req \in Requests \cup {NoRequest}
    /\ Len(calls) <= 3
    /\ threw \in BOOLEAN

-----------------------------------------------------------------------------
(* Vocabulary of the properties *)

Matched == req.route \in HtmlRoutes \cup JsonRoutes
Reported(i) == Truthy(Success(calls[i].val))
Urls(cs) == [i \in DOMAIN cs |-> cs[i].url]

\* an upstream answer that is unreachable or malformed
BadOutcome(o) ==
    \/ o.type \in {"transport", "status"}
    \/ /\ o.type = "ok"
       /\ \/ o.body.kind \in {"null", "string"}
          \/ o.body.kind = "object" /\ o.body.success = "true"
                                    /\ o.body.data = "undefined"

IsErrorPage(r) == r.kind = "render" /\ r.view = "error"
IsEmptySearchPage(r) ==
    r.kind = "render" /\ r.view = "search" /\ r.ctx.results = "null"
IsFailureJson(r) ==
    r.kind = "json" /\ r.body.kind = "object" /\ r.body.success = "false"

\* the query parameters a JSON route requires
Required(route) ==
    CASE route = "suggestions" -> {req.query.keyword}
      [] route = "servers" -> {req.query.id}
      [] route = "stream" -> {req.query.id, req.query.server, req.query.type}
      [] OTHER -> {}

MissingParameter == \E p \in Required(req.route) : Falsy(p)

\* calls a multi-call route joins
Fanout(route) ==
    CASE route = "episodes" -> 2
      [] route = "watch" -> 3
      [] OTHER -> 0

-----------------------------------------------------------------------------
(* C1 *)

\* C1: whenever every upstream call of a request was unreachable or came
\* back malformed, the request ends in the error template on a page route
\* (on /search, whose only failure page is the search template with
\* results=null, in that page) and in a {success:false,...} body on a JSON
\* route.
C1_Claim ==
    (/\ phase = "done"
     /\ Matched
     /\ calls # <<>>
     /\ \A i \in DOMAIN calls : BadOutcome(calls[i].outcome))
    => /\ Len(responses) = 1
       /\ req.route \in HtmlRoutes \ {"search"} => IsErrorPage(responses[1])
       /\ req.route = "search" => IsEmptySearchPage(responses[1])
       /\ req.route \in JsonRoutes => IsFailureJson(responses[1])

-----------------------------------------------------------------------------
(* C2 *)

\* C2: /anime/:id/episodes renders the episodes view exactly when both the
\* anime-detail and the episode-list envelope report success, and the error
\* template otherwise.
C2_Claim ==
    (phase = "done" /\ req.route = "episodes")
    => /\ Len(responses) = 1
       /\ IF Reported(1) /\ Reported(2)
          THEN responses[1].kind = "render" /\ responses[1].view = "episodes"
          ELSE IsErrorPage(responses[1])

-----------------------------------------------------------------------------
(* C3 *)

\* C3: /watch/:animeId renders the watch view whenever the anime-detail
\* envelope reports success, whatever the other two calls did; servers is
\* null exactly when the server-list call failed and streamData is null
\* exactly when the stream-link call failed.
C3_Claim ==
    (phase = "done" /\ req.route = "watch" /\ Reported(1))
    => /\ Len(responses) = 1
       /\ responses[1].kind = "render"
       /\ responses[1].view = "watch"
       /\ responses[1].ctx.servers = "null" <=> ~Reported(2)
       /\ responses[1].ctx.streamData = "null" <=> ~Reported(3)

-----------------------------------------------------------------------------
(* C4 *)

\* C4: /search with an absent or empty keyword renders the search template
\* with results=null and never issues an upstream call; with a keyword it
\* issues one call and still renders the search template, with results=null
\* when that call failed.
C4_SearchAlwaysRenders ==
    req.route = "search"
    => /\ Falsy(req.query.keyword) => calls = <<>> /\ phase = "done"
       /\ ~Falsy(req.query.keyword) => Len(calls) = 1
       /\ phase = "done"
          => /\ Len(responses) = 1
             /\ responses[1].kind = "render"
             /\ responses[1].view = "search"
             /\ responses[1].status = 200
             /\ Falsy(req.query.keyword) => responses[1].ctx.results = "null"
             /\ (~Falsy(req.query.keyword) /\ ~Reported(1))
                => responses[1].ctx.results = "null"

C4_Witness ==
    /\ phase = "done"
    /\ req.route = "search"
    /\ req.query.keyword = Given(<<>>)
    /\ calls = <<>>
    /\ Len(responses) = 1
    /\ IsEmptySearchPage(responses[1])

-----------------------------------------------------------------------------
(* C5 *)

\* C5: a JSON route with a required query parameter missing or empty
\* answers with a locally built {success:false, message} and issues no
\* upstream call; with all of them present it issues exactly one call and
\* answers with the envelope apiCall returned, unchanged.
C5_JsonRoutes ==
    req.route \in JsonRoutes
    => /\ MissingParameter
          => /\ calls = <<>>
             /\ phase = "done"
             /\ Len(responses) = 1
             /\ IsFailureJson(responses[1])
             /\ responses[1].body.message # "undefined"
       /\ ~MissingParameter
          => /\ Len(calls) = 1
             /\ phase = "done"
                => /\ responses = <<Json(calls[1].val)>>
                   /\ calls[1].outcome.type = "ok"
                      => responses[1].body = calls[1].outcome.body

C5_Witness ==
    /\ phase = "done"
    /\ req.route = "stream"
    /\ ~Falsy(req.query.id)
    /\ ~Falsy(req.query.server)
    /\ Falsy(req.query.type)
    /\ calls = <<>>
    /\ Len(responses) = 1
    /\ IsFailureJson(responses[1])

-----------------------------------------------------------------------------
(* C6 *)

\* C6 (as stated): an exception thrown inside a route handler is answered
\* with the 500-status error render.
C6_Claim ==
    (phase = "done" /\ threw)
    => /\ Len(responses) = 1
       /\ IsErrorPage(responses[1])
       /\ responses[1].status = 500

\* C6 (amended): an exception thrown inside a route handler is caught by the
\* handler's own catch block and answered once, with the default 200 status:
\* the error template, on /search the search template with results=null, on
\* a JSON route a {success:false, error} body; the 500-status error handler
\* is not reached.
C6_CaughtLocally ==
    (phase = "done" /\ threw)
    => /\ Len(responses) = 1
       /\ responses[1].status = 200
       /\ responses[1] # ErrorHandlerResponse
       /\ Matched
       /\ CASE req.route = "search" -> IsEmptySearchPage(responses[1])
            [] req.route \in JsonRoutes -> IsFailureJson(responses[1])
            [] OTHER -> IsErrorPage(responses[1])

C6_Witness ==
    /\ phase = "done"
    /\ threw
    /\ req.route = "anime"
    /\ calls[1].outcome = Outcome("ok", JsNull)
    /\ Len(responses) = 1

-----------------------------------------------------------------------------
(* C7 *)

\* C7: the handler reads the data field of an envelope only after it has
\* read the success field of that same envelope and seen it true.
C7_DataAfterSuccess ==
    \A p \in DOMAIN reads :
        reads[p].field = "data"
        => \E q \in 1..(p - 1) :
               /\ reads[q].call = reads[p].call
               /\ reads[q].field = "success"
               /\ Truthy(reads[q].seen)

C7_Witness ==
    /\ phase = "done"
    /\ req.route = "watch"
    /\ \E p \in DOMAIN reads : reads[p].call = 2 /\ reads[p].field = "data"
    /\ \E p \in DOMAIN reads : reads[p].call = 3 /\ reads[p].field = "success"
    /\ ~\E p \in DOMAIN reads : reads[p].call = 3 /\ reads[p].field = "data"

-----------------------------------------------------------------------------
(* C8 *)

\* C8: in /anime/:id/episodes and /watch/:animeId all calls of the request
\* are in flight before any of them settles, nothing is written on res while
\* one of them is outstanding, and a failed call leaves its siblings alone:
\* no call is ever cancelled or rejected, each one settles with its own
\* outcome, and by the time the response is written all of them have.
C8_FanOutFanIn ==
    Fanout(req.route) > 0
    => /\ Len(calls) = Fanout(req.route)
       /\ \A i \in DOMAIN calls :
             /\ calls[i].st \in {"pending", "fulfilled"}
             /\ calls[i].st = "pending" => calls[i].outcome = NoOutcome
             /\ calls[i].st = "fulfilled" => calls[i].outcome \in Outcomes
       /\ (\E i \in DOMAIN calls : calls[i].st = "pending")
          => responses = <<>> /\ phase = "awaiting"
       /\ responses # <<>>
          => \A i \in DOMAIN calls : calls[i].st = "fulfilled"

C8_Witness ==
    /\ req.route = "watch"
    /\ phase = "awaiting"
    /\ calls[2].st = "fulfilled"
    /\ calls[2].outcome.type = "transport"
    /\ calls[1].st = "pending"
    /\ calls[3].st = "fulfilled"
    /\ calls[3].outcome.type = "ok"
    /\ responses = <<>>

-----------------------------------------------------------------------------
(* C9 *)

\* C9: the three calls of /watch/:animeId address the same anime: the
\* anime-detail call uses animeId, and the server-list and stream-link calls
\* both use the composite key animeId::ep=episode built from that animeId,
\* with ep, server and type defaulting to "1", "HD-1" and "sub".
C9_Claim ==
    (req.route = "watch" /\ phase # "idle")
    => LET animeId == req.params.animeId
           key == CompositeKey(animeId, OrDefault(req.query.ep, <<"1">>))
           server == Join(OrDefault(req.query.server, <<"H", "D", "-", "1">>))
           type == Join(OrDefault(req.query.type, <<"s", "u", "b">>))
       IN  Urls(calls) =
               <<"/api/v1/anime/" \o Join(animeId),
                 "/api/v1/servers?id=" \o key,
                 "/api/v1/stream?server=" \o server \o "&type=" \o type
                     \o "&id=" \o key>>

-----------------------------------------------------------------------------
(* C10 *)

\* C10: every request that matches a route is answered exactly once: never
\* twice, once by the time its handler has ended, and, given that each call
\* it issued settles, its handler does end; nothing is issued once the
\* response has been written.
C10_ExactlyOneResponse ==
    /\ [](Matched => /\ Len(responses) <= 1
                     /\ phase = "done" => Len(responses) = 1
                     /\ responses # <<>>
                        => /\ phase = "done"
                           /\ \A i \in DOMAIN calls : calls[i].st # "pending")
    /\ [][(responses # <<>> /\ responses' # <<>>) => Urls(calls') = Urls(calls)]_vars
    /\ ((Matched /\ phase = "awaiting") ~> (phase = "done" /\ Len(responses) = 1))

C10_Witness ==
    /\ phase = "done"
    /\ req.route = "servers"
    /\ Len(calls) = 1
    /\ calls[1].st = "fulfilled"
    /\ Len(responses) = 1

====
